---- MODULE Spec2Model ----
(***************************************************************************)
(* V1DocumentStore (src/gpt_index/old_docstore.py): a keyed store of       *)
(* documents and index structs (docs) with a per-key metadata dict         *)
(* (ref_doc_info, a defaultdict(dict) whose values are dict objects).      *)
(*                                                                         *)
(* Two store objects are modelled, s and t.  s is the store under test,    *)
(* t is a second store: the `other` of update_docstore and the result of   *)
(* from_dict.  The values of ref_doc_info are Python dict objects, so      *)
(* one such object can be referenced from both stores (from_dict copies    *)
(* the outer mapping only); `shared` is the set of keys whose inner dict   *)
(* is one object referenced from s.ref_doc_info and t.ref_doc_info.        *)
(***************************************************************************)
EXTENDS Integers, Sequences, FiniteSets, TLC

\* ------------------------------------------------------------------ bounds
\* MaxBatch: the longest list given to add_documents / from_documents.
\* MaxAfter: the calls made once a serialized dict has been taken.
MaxBatch == 2
MaxAfter == 2

\* The values: doc_ids, doc_hashes and index struct type tags.  The store
\* only compares them for equality.
Ids == {"a", "b"}
Hashes == {"h1", "h2"}
Tags == {"tree"}

\* ------------------------------------------------------------- Python data
None == "None"
TYPE_KEY == "__type__"
DocumentType == "Document"

\* A record object: its class (Document, or the index struct class named by
\* its type tag), its doc_id (None when unset) and its doc_hash.
DOC_TYPE == [cls : {DocumentType} \cup Tags, doc_id : Ids \cup {None}, doc_hash : Hashes]

get_type(doc) == doc.cls
get_doc_id(doc) == doc.doc_id
get_doc_hash(doc) == doc.doc_hash
is_doc_id_none(doc) == doc.doc_id = None
isIndexStruct(doc) == doc.cls # DocumentType

\* dict primitives: d[k] = v, d.pop(k, None), d.get(k, default)
EmptyDict == [k \in {} |-> None]
Put(d, k, v) == [x \in DOMAIN d \cup {k} |-> IF x = k THEN v ELSE d[x]]
Pop(d, k) == [x \in DOMAIN d \ {k} |-> d[x]]
Get(d, k, default) == IF k \in DOMAIN d THEN d[k] ELSE default

\* doc.to_dict() / cls.from_dict(fields) of the record classes
doc_to_dict(doc) == Put(Put(EmptyDict, "doc_id", doc.doc_id), "doc_hash", doc.doc_hash)
doc_from_dict(cls, fields) ==
    [cls |-> cls, doc_id |-> Get(fields, "doc_id", None), doc_hash |-> Get(fields, "doc_hash", None)]

\* ------------------------------------------------------------------- state
VARIABLES
    stores,     \* stores.s, stores.t : [docs, ref_doc_info]
    shared,     \* keys whose ref_doc_info value is one dict object in s and t
    ser,        \* the dict last returned by s.to_dict(), as the caller holds it
    after,      \* the calls made since the caller took ser
    written,    \* history: per key of s, the hash last written since the last delete
    last        \* the last call: operation, receiver, key and flag given, exception
                \* raised, count (records stored, ref_doc_info entries removed,
                \* length), value returned

vars == <<stores, shared, ser, after, written, last>>

NewStore == [docs |-> EmptyDict, ref_doc_info |-> EmptyDict]
Other(self) == IF self = "s" THEN "t" ELSE "s"

\* The two store objects and the sharing between them.
Heap(st, sh) == [stores |-> st, shared |-> sh]

\* self.ref_doc_info[doc_id]: a defaultdict read, which inserts {} for a missing key
Touch(h, self, doc_id) ==
    IF doc_id \in DOMAIN h.stores[self].ref_doc_info THEN h
    ELSE [h EXCEPT !.stores[self].ref_doc_info = Put(@, doc_id, EmptyDict)]

\* self.ref_doc_info[doc_id]["doc_hash"] = doc_hash; the dict written is the
\* object the other store holds too when doc_id is shared
WriteHash(h, self, doc_id, doc_hash) ==
    LET h1 == Touch(h, self, doc_id)
        inner == Put(h1.stores[self].ref_doc_info[doc_id], "doc_hash", doc_hash)
        h2 == [h1 EXCEPT !.stores[self].ref_doc_info[doc_id] = inner]
    IN  IF doc_id \in h.shared
        THEN [h2 EXCEPT !.stores[Other(self)].ref_doc_info[doc_id] = inner]
        ELSE h2

\* self.ref_doc_info.pop(doc_id, None)
PopRef(h, self, doc_id) ==
    [h EXCEPT !.stores[self].ref_doc_info = Pop(@, doc_id),
              !.shared = @ \ {doc_id}]

\* ------------------------------------------------------------ error kinds
\* Every failure is a ValueError; the kinds are told apart by the raise site.
MissingIdentifier == "ValueError: doc_id not set"
DuplicateIdentifier == "ValueError: doc_id already exists"
NotFound == "ValueError: doc_id not found"
UnregisteredType == "ValueError: type_to_struct"

\* ----------------------------------------------------------- the methods
\* Each method is an operator on the heap; it returns the heap after the
\* call, the exception raised (None when it returns) and the value returned.

document_exists(h, self, doc_id) == doc_id \in DOMAIN h.stores[self].docs

\* Faulty variants of add_document: no check that the doc_id is new; the recorded
\* hash kept when a record is overwritten; the doc_id checked only when
\* allow_update is false.
add_document_nocheck(h, self, doc, allow_update) ==
    IF is_doc_id_none(doc)
    THEN [heap |-> h, raised |-> MissingIdentifier]
    ELSE LET h1 == [h EXCEPT !.stores[self].docs = Put(@, get_doc_id(doc), doc)]
         IN  [heap |-> WriteHash(h1, self, get_doc_id(doc), get_doc_hash(doc)),
              raised |-> None]

add_document_keephash(h, self, doc, allow_update) ==
    IF is_doc_id_none(doc)
    THEN [heap |-> h, raised |-> MissingIdentifier]
    ELSE IF ~allow_update /\ document_exists(h, self, get_doc_id(doc))
    THEN [heap |-> h, raised |-> DuplicateIdentifier]
    ELSE LET h1 == [h EXCEPT !.stores[self].docs = Put(@, get_doc_id(doc), doc)]
         IN  [heap |-> IF document_exists(h, self, get_doc_id(doc)) THEN h1
                       ELSE WriteHash(h1, self, get_doc_id(doc), get_doc_hash(doc)),
              raised |-> None]

add_document_idunchecked(h, self, doc, allow_update) ==
    IF ~allow_update /\ is_doc_id_none(doc)
    THEN [heap |-> h, raised |-> MissingIdentifier]
    ELSE IF ~allow_update /\ document_exists(h, self, get_doc_id(doc))
    THEN [heap |-> h, raised |-> DuplicateIdentifier]
    ELSE LET h1 == [h EXCEPT !.stores[self].docs = Put(@, get_doc_id(doc), doc)]
         IN  [heap |-> WriteHash(h1, self, get_doc_id(doc), get_doc_hash(doc)),
              raised |-> None]

\* Faulty variant of add_document: the hash is recorded only for a doc_id that has
\* no ref_doc_info entry yet.
add_document_hashonce(h, self, doc, allow_update) ==
    IF is_doc_id_none(doc)
    THEN [heap |-> h, raised |-> MissingIdentifier]
    ELSE IF ~allow_update /\ document_exists(h, self, get_doc_id(doc))
    THEN [heap |-> h, raised |-> DuplicateIdentifier]
    ELSE LET h1 == [h EXCEPT !.stores[self].docs = Put(@, get_doc_id(doc), doc)]
         IN  [heap |-> IF get_doc_id(doc) \in DOMAIN h.stores[self].ref_doc_info THEN h1
                       ELSE WriteHash(h1, self, get_doc_id(doc), get_doc_hash(doc)),
              raised |-> None]

\* Faulty variant of add_document: the record is stored before its doc_id is checked.
add_document_latecheck(h, self, doc, allow_update) ==
    IF ~allow_update /\ document_exists(h, self, get_doc_id(doc))
    THEN [heap |-> h, raised |-> DuplicateIdentifier]
    ELSE LET h1 == [h EXCEPT !.stores[self].docs = Put(@, get_doc_id(doc), doc)]
         IN  IF is_doc_id_none(doc)
             THEN [heap |-> h1, raised |-> MissingIdentifier]
             ELSE [heap |-> WriteHash(h1, self, get_doc_id(doc), get_doc_hash(doc)),
                   raised |-> None]

\* One iteration of the loop of add_documents.
add_document(h, self, doc, allow_update) ==
    IF is_doc_id_none(doc)
    THEN [heap |-> h, raised |-> MissingIdentifier]
    ELSE IF ~allow_update /\ document_exists(h, self, get_doc_id(doc))
    THEN [heap |-> h, raised |-> DuplicateIdentifier]
    ELSE LET h1 == [h EXCEPT !.stores[self].docs = Put(@, get_doc_id(doc), doc)]
         IN  [heap |-> WriteHash(h1, self, get_doc_id(doc), get_doc_hash(doc)),
              raised |-> None]

\* The loop of add_documents from position i on: the first raise ends the
\* call and keeps what the earlier iterations wrote.  n counts the records
\* stored by this call.
RECURSIVE add_documents_from(_, _, _, _, _)
add_documents_from(h, self, docs, allow_update, i) ==
    IF i > Len(docs)
    THEN [heap |-> h, raised |-> None, n |-> Len(docs)]
    ELSE LET r == add_document(h, self, docs[i], allow_update)
         IN  IF r.raised # None
             THEN [heap |-> r.heap, raised |-> r.raised, n |-> i - 1]
             ELSE add_documents_from(r.heap, self, docs, allow_update, i + 1)

\* Faulty variants of add_documents: the last record of the list is not reached;
\* a call that raises undoes what it stored.
add_documents_short(h, self, docs, allow_update) ==
    add_documents_from(h, self, SubSeq(docs, 1, Len(docs) - 1), allow_update, 1)

add_documents_atomic(h, self, docs, allow_update) ==
    LET r == add_documents_from(h, self, docs, allow_update, 1)
    IN  IF r.raised = None THEN r ELSE [r EXCEPT !.heap = h]

add_documents(h, self, docs, allow_update) ==
    add_documents_from(h, self, docs, allow_update, 1)

\* cls(): a new store object in slot self, then add_documents(docs).
from_documents(h, self, docs) ==
    LET fresh == [h EXCEPT !.stores[self] = NewStore, !.shared = {}]
    IN  add_documents(fresh, self, docs, FALSE)

\* Faulty variant of update_docstore: the record of self is kept for a doc_id in both.
update_docstore_keepmine(h, self) ==
    LET mine == h.stores[self].docs
        theirs == h.stores[Other(self)].docs
        merged == [k \in DOMAIN mine \cup DOMAIN theirs |->
                      IF k \in DOMAIN mine THEN mine[k] ELSE theirs[k]]
    IN  [h EXCEPT !.stores[self].docs = merged]

\* self.docs.update(other.docs), self being store `self` and other the other one
update_docstore(h, self) ==
    LET mine == h.stores[self].docs
        theirs == h.stores[Other(self)].docs
        merged == [k \in DOMAIN mine \cup DOMAIN theirs |->
                      IF k \in DOMAIN theirs THEN theirs[k] ELSE mine[k]]
    IN  [h EXCEPT !.stores[self].docs = merged]

\* The Optional[DOC_TYPE] results are sets: {} is None, {doc} is doc.
get_document(h, self, doc_id, raise_error) ==
    LET doc == IF doc_id \in DOMAIN h.stores[self].docs
               THEN {h.stores[self].docs[doc_id]} ELSE {}
    IN  IF doc = {} /\ raise_error
        THEN [heap |-> h, raised |-> NotFound, ret |-> {}]
        ELSE [heap |-> h, raised |-> None, ret |-> doc]

\* Faulty variant of set_document_hash: no write for a doc_id that has a record.
set_document_hash_newonly(h, self, doc_id, doc_hash) ==
    IF document_exists(h, self, doc_id) THEN h ELSE WriteHash(h, self, doc_id, doc_hash)

\* Faulty variant of set_document_hash: no write for a doc_id that has no record.
set_document_hash_existingonly(h, self, doc_id, doc_hash) ==
    IF document_exists(h, self, doc_id) THEN WriteHash(h, self, doc_id, doc_hash) ELSE h

set_document_hash(h, self, doc_id, doc_hash) == WriteHash(h, self, doc_id, doc_hash)

get_document_hash(h, self, doc_id) ==
    LET h1 == Touch(h, self, doc_id)
    IN  [heap |-> h1, ret |-> Get(h1.stores[self].ref_doc_info[doc_id], "doc_hash", None)]

\* Faulty variants of delete_document: ref_doc_info is left alone; the raise comes
\* before ref_doc_info is popped.
delete_document_keepref(h, self, doc_id, raise_error) ==
    LET doc == IF doc_id \in DOMAIN h.stores[self].docs
               THEN {h.stores[self].docs[doc_id]} ELSE {}
        h1 == [h EXCEPT !.stores[self].docs = Pop(@, doc_id)]
    IN  IF doc = {} /\ raise_error
        THEN [heap |-> h1, raised |-> NotFound, ret |-> {}]
        ELSE [heap |-> h1, raised |-> None, ret |-> doc]

delete_document_raisefirst(h, self, doc_id, raise_error) ==
    LET doc == IF doc_id \in DOMAIN h.stores[self].docs
               THEN {h.stores[self].docs[doc_id]} ELSE {}
        h1 == [h EXCEPT !.stores[self].docs = Pop(@, doc_id)]
        h2 == PopRef(h1, self, doc_id)
    IN  IF doc = {} /\ raise_error
        THEN [heap |-> h, raised |-> NotFound, ret |-> {}]
        ELSE [heap |-> h2, raised |-> None, ret |-> doc]

delete_document(h, self, doc_id, raise_error) ==
    LET doc == IF doc_id \in DOMAIN h.stores[self].docs
               THEN {h.stores[self].docs[doc_id]} ELSE {}
        h1 == [h EXCEPT !.stores[self].docs = Pop(@, doc_id)]
        h2 == PopRef(h1, self, doc_id)
    IN  IF doc = {} /\ raise_error
        THEN [heap |-> h2, raised |-> NotFound, ret |-> {}]
        ELSE [heap |-> h2, raised |-> None, ret |-> doc]

len(h, self) == Cardinality(DOMAIN h.stores[self].docs)

\* Faulty variant of contains_index_struct: exclude_ids is not read.
contains_index_struct_noexclude(h, self, exclude_ids) ==
    \E k \in DOMAIN h.stores[self].docs : isIndexStruct(h.stores[self].docs[k])

contains_index_struct(h, self, exclude_ids) ==
    \E k \in DOMAIN h.stores[self].docs :
        LET doc == h.stores[self].docs[k]
        IN  isIndexStruct(doc) /\ get_doc_id(doc) \notin exclude_ids

\* Faulty variant of to_dict: the type of the record is not written.
to_dict_untyped(h, self) ==
    LET docs == h.stores[self].docs
    IN  [docs |-> [doc_id \in DOMAIN docs |-> doc_to_dict(docs[doc_id])],
         ref_of |-> self]

\* to_dict: a new dict of new per-record dicts under "docs"; under
\* "ref_doc_info" the store's own ref_doc_info object (ref_of names the
\* store whose object it is).
to_dict(h, self) ==
    LET docs == h.stores[self].docs
    IN  [docs |-> [doc_id \in DOMAIN docs |->
                      Put(doc_to_dict(docs[doc_id]), TYPE_KEY, get_type(docs[doc_id]))],
         ref_of |-> self]

\* type_to_struct: absent (None), or a dict from type tags to index struct
\* classes.  Its keys are strings, so "Document" can be one of them; the
\* class registered under a key is an index struct class in every case.
NoRegistry == [absent |-> TRUE, classes |-> EmptyDict]
RegisteredClass(tag) == IF tag \in Tags THEN tag ELSE CHOOSE cls \in Tags : TRUE
Registry(tags) == [absent |-> FALSE, classes |-> [tag \in tags |-> RegisteredClass(tag)]]

\* Faulty variants of the loop of from_dict: an entry with no type tag is looked
\* up in type_to_struct like an index struct; an entry whose tag is not in
\* type_to_struct is loaded as a Document.
RECURSIVE from_dict_from_nodefault(_, _, _, _, _)
from_dict_from_nodefault(docs, objs, type_to_struct, order, i) ==
    IF i > Len(order)
    THEN [docs |-> docs, objs |-> objs, raised |-> None]
    ELSE LET doc_id == order[i]
             doc_type == Get(docs[doc_id], TYPE_KEY, None)
             doc_dict == Pop(docs[doc_id], TYPE_KEY)
             docs1 == [docs EXCEPT ![doc_id] = doc_dict]
         IN  IF doc_type = DocumentType
             THEN from_dict_from_nodefault(docs1,
                                           Put(objs, doc_id, doc_from_dict(DocumentType, doc_dict)),
                                           type_to_struct, order, i + 1)
             ELSE IF type_to_struct.absent \/ doc_type \notin DOMAIN type_to_struct.classes
             THEN [docs |-> docs1, objs |-> objs, raised |-> UnregisteredType]
             ELSE from_dict_from_nodefault(docs1,
                                           Put(objs, doc_id,
                                               doc_from_dict(type_to_struct.classes[doc_type], doc_dict)),
                                           type_to_struct, order, i + 1)

RECURSIVE from_dict_from_lenient(_, _, _, _, _)
from_dict_from_lenient(docs, objs, type_to_struct, order, i) ==
    IF i > Len(order)
    THEN [docs |-> docs, objs |-> objs, raised |-> None]
    ELSE LET doc_id == order[i]
             doc_type == Get(docs[doc_id], TYPE_KEY, None)
             doc_dict == Pop(docs[doc_id], TYPE_KEY)
             docs1 == [docs EXCEPT ![doc_id] = doc_dict]
         IN  IF doc_type = DocumentType \/ doc_type = None
                \/ type_to_struct.absent \/ doc_type \notin DOMAIN type_to_struct.classes
             THEN from_dict_from_lenient(docs1,
                                         Put(objs, doc_id, doc_from_dict(DocumentType, doc_dict)),
                                         type_to_struct, order, i + 1)
             ELSE from_dict_from_lenient(docs1,
                                         Put(objs, doc_id,
                                             doc_from_dict(type_to_struct.classes[doc_type], doc_dict)),
                                         type_to_struct, order, i + 1)

\* The loop of from_dict over docs_dict["docs"].items(), taken in `order`,
\* from position i on.  docs is docs_dict["docs"], which the pop changes in
\* place; objs is docs_obj_dict.
RECURSIVE from_dict_from(_, _, _, _, _)
from_dict_from(docs, objs, type_to_struct, order, i) ==
    IF i > Len(order)
    THEN [docs |-> docs, objs |-> objs, raised |-> None]
    ELSE LET doc_id == order[i]
             doc_type == Get(docs[doc_id], TYPE_KEY, None)
             doc_dict == Pop(docs[doc_id], TYPE_KEY)
             docs1 == [docs EXCEPT ![doc_id] = doc_dict]
         IN  IF doc_type = DocumentType \/ doc_type = None
             THEN from_dict_from(docs1, Put(objs, doc_id, doc_from_dict(DocumentType, doc_dict)),
                                 type_to_struct, order, i + 1)
             ELSE IF type_to_struct.absent \/ doc_type \notin DOMAIN type_to_struct.classes
             THEN [docs |-> docs1, objs |-> objs, raised |-> UnregisteredType]
             ELSE from_dict_from(docs1,
                                 Put(objs, doc_id,
                                     doc_from_dict(type_to_struct.classes[doc_type], doc_dict)),
                                 type_to_struct, order, i + 1)

\* from_dict(docs_dict, type_to_struct), the new store going to slot self.
\* The new ref_doc_info is a new defaultdict holding the same inner dict
\* objects as docs_dict["ref_doc_info"]; {} when that key is absent.
from_dict(h, self, docs_dict, type_to_struct, order) ==
    LET r == from_dict_from(docs_dict.docs, EmptyDict, type_to_struct, order, 1)
        src == docs_dict.ref_of
        ref == IF src = None THEN EmptyDict ELSE h.stores[src].ref_doc_info
        sh == IF src = None THEN {}
              ELSE IF src = self THEN h.shared \cap DOMAIN ref
              ELSE DOMAIN ref
    IN  [docs_dict |-> [docs_dict EXCEPT !.docs = r.docs],
         raised |-> r.raised,
         heap |-> IF r.raised # None THEN h
                  ELSE [h EXCEPT !.stores[self] = [docs |-> r.objs, ref_doc_info |-> ref],
                                 !.shared = sh]]

\* ------------------------------------------------------------ the inputs
\* The lists add_documents and from_documents are called with.
\* FullBatches: every list of up to MaxBatch records.  Batches, the lists
\* the calls are made with: the empty list, every list of one record, and the
\* longer lists over BatchDocs (Documents: two of one doc_id with different
\* hashes, one of each other doc_id, one with no doc_id).
FullBatches == UNION {[1..k -> DOC_TYPE] : k \in 0..MaxBatch}
Singles == {<<doc>> : doc \in DOC_TYPE}
BatchDocs ==
    {doc \in DOC_TYPE : doc.cls = DocumentType /\ (doc.doc_hash = "h1" \/ doc.doc_id = "a")}
Batches == {<<>>} \cup Singles \cup UNION {[1..k -> BatchDocs] : k \in 2..MaxBatch}

\* The registries from_dict is called with, and the orders in which a dict
\* with keys K is iterated (its insertion order).
Registries == {NoRegistry} \cup {Registry(tags) : tags \in SUBSET (Tags \cup {DocumentType})}
Orders(K) == {o \in [1..Cardinality(K) -> K] : \A i, j \in DOMAIN o : o[i] = o[j] => i = j}

\* The stores update_docstore is called with: other = from_documents(docs)
\* for each list of FullBatches it accepts.  update_docstore reads other.docs
\* only, and these are all the docs a store can hold over Ids.
EmptyHeap == Heap([s |-> NewStore, t |-> NewStore], {})
OtherStores ==
    {from_documents(EmptyHeap, "t", docs).heap.stores.t :
        docs \in {b \in FullBatches : from_documents(EmptyHeap, "t", b).raised = None}}

\* ------------------------------------------------------------ the actions
Call(op, self, doc_id, flag, raised, n, ret) ==
    [op |-> op, on |-> self, id |-> doc_id, flag |-> flag,
     raised |-> raised, n |-> n, ret |-> ret]

\* History of the hashes written to key k of s by the first n records of docs.
RECURSIVE WrittenBy(_, _, _)
WrittenBy(w, docs, n) ==
    IF n = 0 THEN w
    ELSE LET w1 == WrittenBy(w, docs, n - 1)
         IN  [w1 EXCEPT ![docs[n].doc_id] = docs[n].doc_hash]

NoWrites == [k \in Ids |-> None]

Init ==
    /\ stores = [s |-> NewStore, t |-> NewStore]
    /\ shared = {}
    /\ ser = [made |-> FALSE, docs |-> EmptyDict, ref_of |-> None]
    /\ after = 0
    /\ written = NoWrites
    /\ last = Call("new", "s", None, FALSE, None, 0, {})

Commit(h) == stores' = h.stores /\ shared' = h.shared

\* Every call counts towards MaxAfter once the caller holds a serialized dict.
CanCall == after < MaxAfter
Tick == after' = IF ser.made THEN after + 1 ELSE after

AddDocuments(self, lists) ==
    /\ CanCall
    /\ \E docs \in lists, allow_update \in BOOLEAN :
        \E r \in {add_documents(Heap(stores, shared), self, docs, allow_update)} :
            /\ Commit(r.heap)
            /\ written' = IF self = "s" THEN WrittenBy(written, docs, r.n) ELSE written
            /\ last' = Call("add_documents", self, None, allow_update, r.raised, r.n, {})
            /\ UNCHANGED ser /\ Tick

\* s = V1DocumentStore.from_documents(docs), the other way to construct s:
\* when the call raises, the caller gets no store and s stays the empty one.
FromDocuments ==
    /\ CanCall
    /\ last.op \in {"new", "from_documents"} /\ stores.s = NewStore
    /\ \E docs \in Batches :
        \E r \in {from_documents(Heap(stores, shared), "s", docs)} :
            /\ IF r.raised = None
               THEN Commit(r.heap) /\ written' = WrittenBy(NoWrites, docs, r.n)
               ELSE UNCHANGED <<stores, shared, written>>
            /\ last' = Call("from_documents", "s", None, FALSE, r.raised, r.n, {})
            /\ UNCHANGED ser /\ Tick

\* s.update_docstore(other) with a store the caller built by from_documents
\* and drops after the call.
UpdateDocstore ==
    /\ CanCall
    /\ \E other \in OtherStores :
        \E r \in {update_docstore(Heap([s |-> stores.s, t |-> other], {}), "s")} :
            /\ stores' = [stores EXCEPT !.s = r.stores.s]
            /\ last' = Call("update_docstore", "s", None, FALSE, None, 0, {})
            /\ UNCHANGED <<shared, ser, written>> /\ Tick

GetDocument(self) ==
    /\ CanCall
    /\ \E doc_id \in Ids, raise_error \in BOOLEAN :
        \E r \in {get_document(Heap(stores, shared), self, doc_id, raise_error)} :
            /\ Commit(r.heap)
            /\ last' = Call("get_document", self, doc_id, raise_error, r.raised, 0, r.ret)
            /\ UNCHANGED <<ser, written>> /\ Tick

DocumentExists(self) ==
    /\ CanCall
    /\ \E doc_id \in Ids :
        /\ last' = Call("document_exists", self, doc_id, FALSE, None, 0,
                        {document_exists(Heap(stores, shared), self, doc_id)})
        /\ UNCHANGED <<stores, shared, ser, written>> /\ Tick

SetDocumentHash(self) ==
    /\ CanCall
    /\ \E doc_id \in Ids, doc_hash \in Hashes :
        /\ Commit(set_document_hash(Heap(stores, shared), self, doc_id, doc_hash))
        /\ written' = IF self = "s" THEN [written EXCEPT ![doc_id] = doc_hash] ELSE written
        /\ last' = Call("set_document_hash", self, doc_id, FALSE, None, 0, {})
        /\ UNCHANGED ser /\ Tick

GetDocumentHash(self) ==
    /\ CanCall
    /\ \E doc_id \in Ids :
        \E r \in {get_document_hash(Heap(stores, shared), self, doc_id)} :
            /\ Commit(r.heap)
            /\ last' = Call("get_document_hash", self, doc_id, FALSE, None, 0, {r.ret})
            /\ UNCHANGED <<ser, written>> /\ Tick

DeleteDocument(self) ==
    /\ CanCall
    /\ \E doc_id \in Ids, raise_error \in BOOLEAN :
        \E r \in {delete_document(Heap(stores, shared), self, doc_id, raise_error)} :
            /\ Commit(r.heap)
            /\ written' = IF self = "s" THEN [written EXCEPT ![doc_id] = None] ELSE written
            /\ last' = Call("delete_document", self, doc_id, raise_error, r.raised,
                            Cardinality(DOMAIN stores[self].ref_doc_info
                                        \ DOMAIN r.heap.stores[self].ref_doc_info), r.ret)
            /\ UNCHANGED ser /\ Tick

LenCall(self) ==
    /\ CanCall
    /\ last' = Call("__len__", self, None, FALSE, None, len(Heap(stores, shared), self), {})
    /\ UNCHANGED <<stores, shared, ser, written>> /\ Tick

ContainsIndexStruct(self) ==
    /\ CanCall
    /\ \E exclude_ids \in SUBSET Ids :
        /\ last' = Call("contains_index_struct", self, None, FALSE, None,
                        Cardinality(exclude_ids),
                        {contains_index_struct(Heap(stores, shared), self, exclude_ids)})
        /\ UNCHANGED <<stores, shared, ser, written>> /\ Tick

\* ser = s.to_dict()
ToDict ==
    /\ CanCall
    /\ \E d \in {to_dict(Heap(stores, shared), "s")} :
        /\ ser' = [made |-> TRUE, docs |-> d.docs, ref_of |-> d.ref_of]
        /\ last' = Call("to_dict", "s", None, FALSE, None, 0, {})
        /\ UNCHANGED <<stores, shared, written>> /\ Tick

\* t = V1DocumentStore.from_dict(ser, type_to_struct); the pops are seen in
\* ser whether the call returns or raises.
FromDict ==
    /\ CanCall
    /\ ser.made
    /\ \E type_to_struct \in Registries, order \in Orders(DOMAIN ser.docs) :
        \E r \in {from_dict(Heap(stores, shared), "t",
                            [docs |-> ser.docs, ref_of |-> ser.ref_of], type_to_struct, order)} :
            /\ Commit(r.heap)
            /\ ser' = [ser EXCEPT !.docs = r.docs_dict.docs]
            /\ last' = Call("from_dict", "t", None, type_to_struct.absent, r.raised,
                            Cardinality(DOMAIN type_to_struct.classes),
                            DOMAIN type_to_struct.classes)
            /\ UNCHANGED written /\ Tick

\* The calls on t, the store from_dict returns.
TAddDocuments == ser.made /\ AddDocuments("t", Singles)
TDeleteDocument == ser.made /\ DeleteDocument("t")
TSetDocumentHash == ser.made /\ SetDocumentHash("t")
TGetDocumentHash == ser.made /\ GetDocumentHash("t")

Next ==
    \/ AddDocuments("s", Batches)
    \/ FromDocuments
    \/ UpdateDocstore
    \/ GetDocument("s")
    \/ DocumentExists("s")
    \/ SetDocumentHash("s")
    \/ GetDocumentHash("s")
    \/ DeleteDocument("s")
    \/ LenCall("s")
    \/ ContainsIndexStruct("s")

Spec == Init /\ [][Next]_vars

\* The store and its serialization: s is built one record at a time, then
\* the caller takes ser = s.to_dict() and calls from_dict on it, up to
\* MaxAfter calls in all.
Building == ~ser.made
NextSerialize ==
    \/ Building /\ AddDocuments("s", Singles)
    \/ Building /\ UpdateDocstore
    \/ Building /\ SetDocumentHash("s")
    \/ Building /\ GetDocumentHash("s")
    \/ Building /\ DeleteDocument("s")
    \/ ToDict
    \/ FromDict

SpecSerialize == Init /\ [][NextSerialize]_vars

\* A store on which only add_documents and delete_document are called.
NextSync ==
    \/ AddDocuments("s", Batches)
    \/ DeleteDocument("s")

SpecSync == Init /\ [][NextSync]_vars

\* The store s and the store t = from_dict(s.to_dict()) side by side: s is
\* built, the caller takes ser = s.to_dict() and then makes up to MaxAfter
\* calls, from_dict and calls on either store.
NextAlias ==
    \/ AddDocuments("s", Singles)
    \/ SetDocumentHash("s")
    \/ DeleteDocument("s")
    \/ ToDict
    \/ FromDict
    \/ TAddDocuments
    \/ TDeleteDocument
    \/ TSetDocumentHash
    \/ TGetDocumentHash

SpecAlias == Init /\ [][NextAlias]_vars

\* A dict the caller got from elsewhere (a file written by to_dict, now or by
\* an earlier version): under "docs" a dict of per-record dicts, each with the
\* record's fields and with "__type__" absent, "Document" or an index struct
\* tag; no "ref_doc_info" key.  The caller calls from_dict on it, up to
\* MaxAfter times.
Fields == {doc_to_dict(doc) : doc \in DOC_TYPE}
Entries == Fields \cup {Put(f, TYPE_KEY, tag) : f \in Fields, tag \in Tags \cup {DocumentType}}
SerDocs == UNION {[K -> Entries] : K \in SUBSET Ids}

InitLoad ==
    /\ stores = [s |-> NewStore, t |-> NewStore]
    /\ shared = {}
    /\ ser \in {[made |-> TRUE, docs |-> d, ref_of |-> None] : d \in SerDocs}
    /\ after = 0
    /\ written = NoWrites
    /\ last = Call("new", "s", None, FALSE, None, 0, {})

NextLoad == FromDict

SpecLoad == InitLoad /\ [][NextLoad]_vars

\* ================================================================ claims
H == Heap(stores, shared)
S == stores.s
HashOf(store, doc_id) ==
    IF doc_id \in DOMAIN store.ref_doc_info
    THEN Get(store.ref_doc_info[doc_id], "doc_hash", None) ELSE None
IdsSet(docs) == \A i \in DOMAIN docs : docs[i].doc_id # None
IdsDistinct(docs) == \A i, j \in DOMAIN docs : docs[i].doc_id = docs[j].doc_id => i = j
Front(docs) == SubSeq(docs, 1, Len(docs) - 1)
Final(docs) == docs[Len(docs)]
IndexTags(store) == {store.docs[k].cls : k \in {x \in DOMAIN store.docs : isIndexStruct(store.docs[x])}}

\* C1: for every reachable store s, every registry holding the tag of every
\* index struct of s and every iteration order, from_dict(to_dict(s)) raises
\* nothing and returns a store equal to s: the same docs, each record of its
\* original class, and the same ref_doc_info.
C1_RoundTrip ==
    \A type_to_struct \in Registries, order \in Orders(DOMAIN S.docs) :
        IndexTags(S) \subseteq DOMAIN type_to_struct.classes =>
            \A r \in {from_dict(H, "t", to_dict(H, "s"), type_to_struct, order)} :
                /\ r.raised = None
                /\ r.heap.stores.t.docs = S.docs
                /\ r.heap.stores.t.ref_doc_info = S.ref_doc_info

\* A mixed store was serialized and from_dict has just returned an equal store.
C1_Witness ==
    /\ last.op = "from_dict" /\ last.raised = None
    /\ stores.t = S
    /\ DOMAIN ser.docs = DOMAIN S.docs
    /\ \E k \in DOMAIN S.docs : isIndexStruct(S.docs[k])
    /\ \E k \in DOMAIN S.docs : ~isIndexStruct(S.docs[k])
    /\ \E k \in DOMAIN S.ref_doc_info : HashOf(S, k) # None

\* C2: on a store with no docs, add_documents of a list whose doc_ids are set
\* and pairwise distinct returns; get_document of each doc_id then returns the
\* record supplied, and the length is the number of records.
C2_AddThenGet ==
    S.docs = EmptyDict =>
        \A docs \in FullBatches, allow_update \in BOOLEAN :
            (IdsSet(docs) /\ IdsDistinct(docs)) =>
                \A r \in {add_documents(H, "s", docs, allow_update)} :
                    /\ r.raised = None
                    /\ \A i \in DOMAIN docs :
                        get_document(r.heap, "s", docs[i].doc_id, TRUE)
                            = [heap |-> r.heap, raised |-> None, ret |-> {docs[i]}]
                    /\ len(r.heap, "s") = Len(docs)

\* from_documents stored two records with distinct doc_ids in a new store.
C2_Witness ==
    /\ last.op = "from_documents" /\ last.raised = None /\ last.n = 2
    /\ len(H, "s") = 2
    /\ \A k \in DOMAIN S.docs : get_document(H, "s", k, TRUE).ret = {S.docs[k]}

\* C3: with allow_update false, a record whose doc_id is in docs when
\* its turn comes (alone, or last in a list whose earlier records were
\* stored) raises DuplicateIdentifier and changes nothing: the record
\* stored under the doc_id and its ref_doc_info entry stay as they were.
C3_DuplicateRejected ==
    \A docs \in Batches \ {<<>>} :
        \A p \in {add_documents(H, "s", Front(docs), FALSE)} :
            (p.raised = None /\ Final(docs).doc_id \in DOMAIN p.heap.stores.s.docs) =>
                \A r \in {add_documents(H, "s", docs, FALSE)} :
                    /\ r.raised = DuplicateIdentifier
                    /\ r.heap.stores.s.docs[Final(docs).doc_id]
                         = p.heap.stores.s.docs[Final(docs).doc_id]
                    /\ r.heap.stores.s.ref_doc_info = p.heap.stores.s.ref_doc_info
                    /\ r.heap = p.heap

\* add_documents without allow_update has just raised DuplicateIdentifier on
\* a store holding records.
C3_Witness ==
    /\ last.op = "add_documents" /\ ~last.flag
    /\ last.raised = DuplicateIdentifier /\ last.n = 0
    /\ \E k \in DOMAIN S.docs : HashOf(S, k) = S.docs[k].doc_hash

\* C4: with allow_update true, a record whose doc_id is in docs is stored in
\* place of the old one, its own doc_hash becomes the recorded hash (whatever
\* wrote the hash recorded before), and the length stays.
C4_UpdateOverwrites ==
    \A doc \in DOC_TYPE :
        doc.doc_id \in DOMAIN S.docs =>
            \A r \in {add_documents(H, "s", <<doc>>, TRUE)} :
                /\ r.raised = None
                /\ r.heap.stores.s.docs[doc.doc_id] = doc
                /\ HashOf(r.heap.stores.s, doc.doc_id) = doc.doc_hash
                /\ len(r.heap, "s") = len(H, "s")

\* add_documents with allow_update stored two records under one doc_id: the
\* second replaced the first.
C4_Witness ==
    /\ last.op = "add_documents" /\ last.flag /\ last.raised = None /\ last.n = 2
    /\ len(H, "s") = 1
    /\ \A k \in DOMAIN S.docs : HashOf(S, k) = S.docs[k].doc_hash

\* C5: a record whose doc_id is unset (alone, or last in a list whose earlier
\* records were stored) raises MissingIdentifier for both values of
\* allow_update; nothing is stored for it, in docs or in ref_doc_info.
C5_MissingIdentifier ==
    \A docs \in Batches \ {<<>>}, allow_update \in BOOLEAN :
        \A p \in {add_documents(H, "s", Front(docs), allow_update)} :
            (p.raised = None /\ Final(docs).doc_id = None) =>
                \A r \in {add_documents(H, "s", docs, allow_update)} :
                    /\ r.raised = MissingIdentifier
                    /\ r.heap = p.heap
                    /\ None \notin DOMAIN r.heap.stores.s.docs
                    /\ None \notin DOMAIN r.heap.stores.s.ref_doc_info

\* add_documents with allow_update has just raised MissingIdentifier on a
\* store that holds records.
C5_Witness ==
    /\ last.op = "add_documents" /\ last.flag
    /\ last.raised = MissingIdentifier
    /\ S.docs # EmptyDict
    /\ DOMAIN S.docs \subseteq Ids /\ DOMAIN S.ref_doc_info \subseteq Ids

\* C6: delete_document of a doc_id in docs, for both values of raise_error,
\* returns the record removed and leaves the doc_id in neither docs nor
\* ref_doc_info: get_document(raise_error=False) then returns None,
\* document_exists False, get_document_hash None, the length is one less, and
\* every other doc_id keeps its record and its ref_doc_info entry.
C6_DeleteRemovesBoth ==
    \A doc_id \in DOMAIN S.docs, raise_error \in BOOLEAN :
        \A r \in {delete_document(H, "s", doc_id, raise_error)} :
            /\ r.raised = None
            /\ r.ret = {S.docs[doc_id]}
            /\ doc_id \notin DOMAIN r.heap.stores.s.docs
            /\ doc_id \notin DOMAIN r.heap.stores.s.ref_doc_info
            /\ get_document(r.heap, "s", doc_id, FALSE).raised = None
            /\ get_document(r.heap, "s", doc_id, FALSE).ret = {}
            /\ ~document_exists(r.heap, "s", doc_id)
            /\ get_document_hash(r.heap, "s", doc_id).ret = None
            /\ len(r.heap, "s") = len(H, "s") - 1
            /\ \A k \in Ids \ {doc_id} :
                /\ k \in DOMAIN r.heap.stores.s.docs <=> k \in DOMAIN S.docs
                /\ k \in DOMAIN S.docs => r.heap.stores.s.docs[k] = S.docs[k]
                /\ k \in DOMAIN r.heap.stores.s.ref_doc_info <=> k \in DOMAIN S.ref_doc_info
                /\ k \in DOMAIN S.ref_doc_info =>
                       r.heap.stores.s.ref_doc_info[k] = S.ref_doc_info[k]

\* delete_document has just removed a record that had a ref_doc_info entry,
\* and another record is still stored with its hash.
C6_Witness ==
    /\ last.op = "delete_document" /\ last.ret # {} /\ last.n = 1
    /\ last.id \notin DOMAIN S.docs \cup DOMAIN S.ref_doc_info
    /\ \E k \in DOMAIN S.docs : HashOf(S, k) # None

\* C7: update_docstore(other) makes docs the old docs overridden by
\* other.docs (other's record for a doc_id in both, the old record for a
\* doc_id in self only) and leaves ref_doc_info and other unchanged.
C7_MergeFrame ==
    \A other \in OtherStores :
        \A r \in {update_docstore(Heap([s |-> S, t |-> other], {}), "s")} :
            /\ DOMAIN r.stores.s.docs = DOMAIN S.docs \cup DOMAIN other.docs
            /\ \A k \in DOMAIN other.docs : r.stores.s.docs[k] = other.docs[k]
            /\ \A k \in DOMAIN S.docs \ DOMAIN other.docs : r.stores.s.docs[k] = S.docs[k]
            /\ r.stores.s.ref_doc_info = S.ref_doc_info
            /\ r.stores.t = other

\* update_docstore has just brought in a record that has no ref_doc_info
\* entry, next to a record that has one.
C7_Witness ==
    /\ last.op = "update_docstore"
    /\ DOMAIN S.docs \ DOMAIN S.ref_doc_info # {}
    /\ DOMAIN S.docs \cap DOMAIN S.ref_doc_info # {}

\* C8: in every reachable state get_document_hash(doc_id) returns, for every
\* doc_id, the hash last written for it by add_documents (the record's own
\* hash) or set_document_hash (the hash given) since the last delete_document
\* of that doc_id, and None when there was no such write.
C8_HashLastWritten ==
    /\ \A doc_id \in Ids : get_document_hash(H, "s", doc_id).ret = written[doc_id]
    /\ \A doc_id \in Ids, doc_hash \in Hashes :
        \A h \in {set_document_hash(H, "s", doc_id, doc_hash)} :
            /\ get_document_hash(h, "s", doc_id).ret = doc_hash
            /\ h.stores.s.docs = S.docs

\* set_document_hash has just overridden the hash captured when the record
\* was stored.
C8_Witness ==
    /\ last.op = "set_document_hash"
    /\ last.id \in DOMAIN S.docs
    /\ written[last.id] # S.docs[last.id].doc_hash
    /\ get_document_hash(H, "s", last.id).ret = written[last.id]

\* The store after the first n records of docs were each stored under their
\* own doc_id with their own doc_hash recorded.
RECURSIVE Stored(_, _, _)
Stored(store, docs, n) ==
    IF n = 0 THEN store
    ELSE LET st == Stored(store, docs, n - 1)
             doc == docs[n]
         IN  [docs |-> Put(st.docs, doc.doc_id, doc),
              ref_doc_info |-> Put(st.ref_doc_info, doc.doc_id,
                                   Put(Get(st.ref_doc_info, doc.doc_id, EmptyDict),
                                       "doc_hash", doc.doc_hash))]

\* The record at position k of docs cannot be stored: its doc_id is unset, or
\* is in docs by then and allow_update is false.
Refused(store, docs, allow_update, k) ==
    \/ docs[k].doc_id = None
    \/ ~allow_update /\ docs[k].doc_id \in DOMAIN Stored(store, docs, k - 1).docs

\* A call that raises at position k has stored exactly the records before k.
PrefixCommitted ==
    \A docs \in Batches, allow_update \in BOOLEAN :
        \A r \in {add_documents(H, "s", docs, allow_update)} :
            r.raised # None =>
                /\ r.n < Len(docs)
                /\ \A i \in 1..r.n : ~Refused(S, docs, allow_update, i)
                /\ Refused(S, docs, allow_update, r.n + 1)
                /\ r.raised = IF docs[r.n + 1].doc_id = None
                              THEN MissingIdentifier ELSE DuplicateIdentifier
                /\ r.heap.stores.s = Stored(S, docs, r.n)
                /\ r.heap.stores.t = stores.t

\* The lists from_documents is tried on: one record longer than FullBatches.
LongBatches == UNION {[1..k -> DOC_TYPE] : k \in 0..(MaxBatch + 1)}
Repeats(docs) ==
    \E i, j \in DOMAIN docs : i < j /\ docs[i].doc_id = docs[j].doc_id /\ docs[j].doc_id # None
\* The second occurrence of a doc_id comes before any record with no doc_id.
RepeatsFirst(docs) ==
    \E i, j \in DOMAIN docs :
        /\ i < j /\ docs[i].doc_id = docs[j].doc_id
        /\ \A m \in 1..j : docs[m].doc_id # None
JustBuilt == last.op \in {"new", "from_documents"}

\* C9 as stated: a failing add_documents has stored exactly the records before
\* the failing one, and from_documents raises DuplicateIdentifier on every list
\* in which a doc_id occurs twice.
C9_Original ==
    /\ PrefixCommitted
    /\ JustBuilt =>
         \A docs \in LongBatches :
            Repeats(docs) => from_documents(H, "s", docs).raised = DuplicateIdentifier

\* C9 as amended: a failing add_documents has stored exactly the records
\* before the failing one, and from_documents raises DuplicateIdentifier on
\* every list in which a doc_id occurs twice with no record of unset doc_id
\* before its second occurrence; on the other lists with a repeated doc_id it
\* raises MissingIdentifier.
C9_PrefixCommitted ==
    /\ PrefixCommitted
    /\ JustBuilt =>
         \A docs \in LongBatches :
            Repeats(docs) =>
                from_documents(H, "s", docs).raised =
                    IF RepeatsFirst(docs) THEN DuplicateIdentifier ELSE MissingIdentifier

\* add_documents has just raised at its second record, the first one stored.
C9_Witness ==
    /\ last.op = "add_documents" /\ last.raised = DuplicateIdentifier /\ last.n = 1
    /\ \E k \in DOMAIN S.docs : HashOf(S, k) = S.docs[k].doc_hash

\* C10: delete_document of a doc_id not in docs removes the ref_doc_info
\* entry of the doc_id if there is one, raises NotFound when raise_error is
\* true and returns None when it is false, and leaves docs and the other
\* ref_doc_info entries unchanged.
C10_DeleteAbsent ==
    \A doc_id \in Ids \ DOMAIN S.docs, raise_error \in BOOLEAN :
        \A r \in {delete_document(H, "s", doc_id, raise_error)} :
            /\ r.raised = IF raise_error THEN NotFound ELSE None
            /\ r.ret = {}
            /\ doc_id \notin DOMAIN r.heap.stores.s.ref_doc_info
            /\ r.heap.stores.s.docs = S.docs
            /\ \A k \in Ids \ {doc_id} :
                /\ k \in DOMAIN r.heap.stores.s.ref_doc_info <=> k \in DOMAIN S.ref_doc_info
                /\ k \in DOMAIN S.ref_doc_info =>
                       r.heap.stores.s.ref_doc_info[k] = S.ref_doc_info[k]

\* delete_document has just raised NotFound and removed the ref_doc_info
\* entry of a doc_id that had no record.
C10_Witness ==
    /\ last.op = "delete_document" /\ last.raised = NotFound /\ last.n = 1
    /\ last.id \notin DOMAIN S.ref_doc_info

\* The dict the caller holds, as from_dict takes it, and the type tag of its
\* entry k (None when the entry has none).
SerDict == [docs |-> ser.docs, ref_of |-> ser.ref_of]
TagOf(k) == Get(ser.docs[k], TYPE_KEY, None)
Plain(k) == TagOf(k) = None \/ TagOf(k) = DocumentType
Registered(type_to_struct, k) ==
    ~type_to_struct.absent /\ TagOf(k) \in DOMAIN type_to_struct.classes

\* C11: for every dict, every registry (absent, empty, with index struct tags,
\* with the key "Document") and every iteration order, from_dict loads every
\* entry whose "__type__" is absent or "Document" as a Document built from
\* the entry's other fields; it returns when every entry is of that kind,
\* and when it raises some entry is of another kind.
C11_DocumentDefault ==
    \A type_to_struct \in Registries, order \in Orders(DOMAIN ser.docs) :
        \A r \in {from_dict(H, "t", SerDict, type_to_struct, order)} :
            /\ (\A k \in DOMAIN ser.docs : Plain(k)) => r.raised = None
            /\ r.raised # None =>
                   r.raised = UnregisteredType /\ \E k \in DOMAIN ser.docs : ~Plain(k)
            /\ r.raised = None =>
                   \A k \in DOMAIN ser.docs :
                       Plain(k) =>
                           /\ k \in DOMAIN r.heap.stores.t.docs
                           /\ r.heap.stores.t.docs[k]
                                = doc_from_dict(DocumentType, Pop(ser.docs[k], TYPE_KEY))
                           /\ ~isIndexStruct(r.heap.stores.t.docs[k])

\* from_dict, given a registry with the key "Document", has just returned a
\* store of two Documents from a dict whose entries had no type tag left.
C11_Witness ==
    /\ last.op = "from_dict" /\ last.raised = None /\ DocumentType \in last.ret
    /\ after = 2
    /\ Cardinality(DOMAIN stores.t.docs) = 2
    /\ \A k \in DOMAIN stores.t.docs : ~isIndexStruct(stores.t.docs[k])
    /\ \A k \in DOMAIN ser.docs : TagOf(k) = None

\* C12: for every dict, registry and iteration order, from_dict raises
\* UnregisteredType and leaves the caller without a store exactly when some
\* entry has a type tag other than "Document" that the registry, absent or
\* not, does not have as a key; otherwise it returns a store in which every
\* entry with such a tag is the object of the class registered under the tag,
\* built from the entry's other fields.
C12_UnregisteredType ==
    \A type_to_struct \in Registries, order \in Orders(DOMAIN ser.docs) :
        \A r \in {from_dict(H, "t", SerDict, type_to_struct, order)} :
            /\ r.raised \in {None, UnregisteredType}
            /\ r.raised = UnregisteredType <=>
                   \E k \in DOMAIN ser.docs : ~Plain(k) /\ ~Registered(type_to_struct, k)
            /\ r.raised = UnregisteredType => r.heap = H
            /\ r.raised = None =>
                   /\ DOMAIN r.heap.stores.t.docs = DOMAIN ser.docs
                   /\ \A k \in DOMAIN ser.docs :
                       ~Plain(k) =>
                           r.heap.stores.t.docs[k]
                             = doc_from_dict(type_to_struct.classes[TagOf(k)],
                                             Pop(ser.docs[k], TYPE_KEY))

\* from_dict, given a registry, has just raised UnregisteredType at an entry
\* whose tag it has popped, and the caller has no store.
C12_Witness ==
    /\ last.op = "from_dict" /\ last.raised = UnregisteredType /\ ~last.flag
    /\ after = 1
    /\ stores.t = NewStore
    /\ \E k \in DOMAIN ser.docs : TagOf(k) = None
    /\ \E k \in DOMAIN ser.docs : ~Plain(k)

\* The doc_ids under which store holds index structs, and the heap after
\* delete_document of each doc_id of K on s.
IndexIds(store) == {k \in DOMAIN store.docs : isIndexStruct(store.docs[k])}
RECURSIVE DeleteAll(_, _)
DeleteAll(h, K) ==
    IF K = {} THEN h
    ELSE LET k == CHOOSE x \in K : TRUE
         IN  DeleteAll(delete_document(h, "s", k, TRUE).heap, K \ {k})

\* C13: in every reachable state and for every exclude_ids,
\* contains_index_struct returns true exactly when docs holds an index
\* struct whose doc_id is not in exclude_ids: false when docs holds Documents
\* only, true (with nothing excluded) once an index struct has been added,
\* false when exclude_ids has the doc_id of every index struct stored, false
\* after each of them was deleted; and a call leaves the store as it was.
C13_ContainsIndexStruct ==
    /\ [](\A exclude_ids \in SUBSET Ids :
            /\ contains_index_struct(H, "s", exclude_ids) <=> IndexIds(S) \ exclude_ids # {}
            /\ IndexIds(S) = {} => ~contains_index_struct(H, "s", exclude_ids)
            /\ IndexIds(S) \subseteq exclude_ids => ~contains_index_struct(H, "s", exclude_ids)
            /\ ~contains_index_struct(DeleteAll(H, IndexIds(S)), "s", exclude_ids))
    /\ [](\A doc \in {d \in DOC_TYPE : isIndexStruct(d)}, allow_update \in BOOLEAN :
            \A r \in {add_documents(H, "s", <<doc>>, allow_update)} :
                r.raised = None =>
                    /\ contains_index_struct(r.heap, "s", {})
                    /\ \A exclude_ids \in SUBSET Ids :
                           contains_index_struct(r.heap, "s", exclude_ids)
                             <=> (IndexIds(S) \cup {doc.doc_id}) \ exclude_ids # {})
    /\ [][last'.op = "contains_index_struct" => UNCHANGED <<stores, shared>>]_vars

\* contains_index_struct has just returned false on a store that holds an
\* index struct next to a Document: the doc_id of the index struct was
\* excluded.
C13_Witness ==
    /\ last.op = "contains_index_struct" /\ last.ret = {FALSE} /\ last.n = 1
    /\ IndexIds(S) # {} /\ IndexIds(S) # DOMAIN S.docs
    /\ contains_index_struct(H, "s", {})

\* C14: in every store reached from V1DocumentStore() or from_documents by
\* add_documents, delete_document, set_document_hash and update_docstore with
\* stores built the same way (and by the reading calls), every key of docs
\* maps to a record whose doc_id is set and is that key.
C14_KeyIsDocId ==
    \A k \in DOMAIN S.docs :
        /\ ~is_doc_id_none(S.docs[k])
        /\ get_doc_id(S.docs[k]) = k

\* update_docstore has just left two records in docs, one of them an index
\* struct, each under its own doc_id.
C14_Witness ==
    /\ last.op = "update_docstore"
    /\ Cardinality(DOMAIN S.docs) = 2
    /\ \E k \in DOMAIN S.docs : isIndexStruct(S.docs[k])
    /\ \A k \in DOMAIN S.docs : get_doc_id(S.docs[k]) = k

\* The doc_ids with a ref_doc_info entry and no record.
Orphans(store) == DOMAIN store.ref_doc_info \ DOMAIN store.docs

\* C15 as stated: no call sequence from an empty store leaves a ref_doc_info
\* entry for a doc_id that has no record.
C15_Original == Orphans(S) = {}

\* C15 as amended: the empty store has no ref_doc_info entry without a
\* record; no call other than set_document_hash and get_document_hash adds
\* one; set_document_hash of a doc_id with no record adds one holding the
\* hash, and get_document_hash of a doc_id with no record and no entry adds
\* an empty one.
C15_OrphansFromHashCalls ==
    /\ (stores.s = NewStore => Orphans(S) = {})
    /\ [][last'.op \notin {"set_document_hash", "get_document_hash"}
            => Orphans(stores'.s) \subseteq Orphans(stores.s)]_vars
    /\ [](\A doc_id \in Ids \ DOMAIN S.docs :
            /\ \A doc_hash \in Hashes :
                \A h \in {set_document_hash(H, "s", doc_id, doc_hash)} :
                    /\ doc_id \in Orphans(h.stores.s)
                    /\ h.stores.s.ref_doc_info[doc_id] = Put(EmptyDict, "doc_hash", doc_hash)
                           \/ doc_id \in DOMAIN S.ref_doc_info
            /\ \A r \in {get_document_hash(H, "s", doc_id)} :
                    /\ doc_id \in Orphans(r.heap.stores.s)
                    /\ doc_id \notin DOMAIN S.ref_doc_info
                           => r.heap.stores.s.ref_doc_info[doc_id] = EmptyDict)

\* set_document_hash has just made a ref_doc_info entry for a doc_id that
\* has no record, in a store that holds a record.
C15_Witness ==
    /\ last.op = "set_document_hash"
    /\ last.id \in Orphans(S)
    /\ S.docs # EmptyDict
    /\ HashOf(S, last.id) # None

\* The registries that have every index struct tag of the dict as a key.
FullRegistries == {type_to_struct \in Registries :
                      \A k \in DOMAIN ser.docs : Plain(k) \/ Registered(type_to_struct, k)}

\* C16 as stated: a from_dict call, returning or raising, leaves the dict it
\* was given as it was; and a call with a registry that has every tag, made
\* after another call on the same dict, returns the store that such a call
\* returns when it is the first, index structs included.
C16_Original ==
    /\ [][last'.op = "from_dict" => ser'.docs = ser.docs]_vars
    /\ [](ser.made =>
            \A first \in Registries, type_to_struct \in FullRegistries,
               order \in Orders(DOMAIN ser.docs) :
                \A r0 \in {from_dict(H, "t", SerDict, type_to_struct, order)},
                   r1 \in {from_dict(H, "t", SerDict, first, order)} :
                    \A r2 \in {from_dict(r1.heap, "t", r1.docs_dict, type_to_struct, order)} :
                        /\ r2.raised = None
                        /\ r2.heap.stores.t = r0.heap.stores.t
                        /\ \A k \in DOMAIN ser.docs :
                               ~Plain(k) => isIndexStruct(r2.heap.stores.t.docs[k]))

\* The value of s.to_dict() in heap h: the dict with the ref_doc_info object
\* it refers to written out.
ToDictValue(h) ==
    [docs |-> to_dict(h, "s").docs,
     ref_doc_info |-> h.stores[to_dict(h, "s").ref_of].ref_doc_info]

\* C17 as stated: a get_document_hash call, for a doc_id with a ref_doc_info
\* entry or without, leaves docs and ref_doc_info as they were: the same
\* doc_ids in ref_doc_info and the same value of to_dict().
C17_Original ==
    [][last'.op = "get_document_hash" =>
          /\ stores'.s.docs = stores.s.docs
          /\ stores'.s.ref_doc_info = stores.s.ref_doc_info
          /\ DOMAIN stores'.s.ref_doc_info = DOMAIN stores.s.ref_doc_info
          /\ ToDictValue(Heap(stores', shared')) = ToDictValue(H)]_vars

Answers(store) == [docs |-> store.docs, hashes |-> [k \in Ids |-> HashOf(store, k)]]
Writes == {"add_documents", "delete_document", "set_document_hash"}
JustLoaded == last.op = "from_dict" /\ last.raised = None

\* C19 as stated: once t = from_dict(s.to_dict(), type_to_struct) has
\* returned, an add_documents, delete_document or set_document_hash on t
\* leaves every answer of s as it was, and one on s leaves every answer of
\* t as it was.
C19_Original ==
    [][(JustLoaded /\ last'.op \in Writes) =>
          /\ last'.on = "t" => Answers(stores'.s) = Answers(stores.s)
          /\ last'.on = "s" => Answers(stores'.t) = Answers(stores.t)]_vars

====
